---------------------------- MODULE Spec2Model ----------------------------
(***************************************************************************)
(* A model of clitest.py: the manual validator of suite documents, the     *)
(* stream comparison, and the runner (main, run_suite, run_test_case).     *)
(*                                                                         *)
(* Text is a sequence of characters, each character a one-token string.    *)
(* ElementTree gives None for the text of an element without text; the     *)
(* code reads every text through `x or ""`, a truth test or a caught       *)
(* AttributeError, so None and "" are both the empty sequence here.        *)
(***************************************************************************)
EXTENDS Integers, Sequences, FiniteSets, TLC

(***************************************************************************)
(* Bounds of the model                                                     *)
(***************************************************************************)
\* longest text a process writes to a stream in the comparison specification
MaxActualLen == 3
\* most test cases of a generated suite document
MaxCases == 2
\* most commands of a generated setup or teardown block
MaxCmds == 2

(***************************************************************************)
(* Exit codes (clitest.py 21-23)                                           *)
(***************************************************************************)
EXIT_CODE_SUCCESS == 0
EXIT_CODE_TESTS_FAILED == 1
EXIT_CODE_RUNTIME_ERROR == 2

VALID_NORMALIZERS == {"ansi", "whitespace"}

(***************************************************************************)
(* Characters.  ESC stands for the byte 0x1B.  The classes are those of    *)
(* the regular expressions of normalize_output, restricted to the          *)
(* characters the model writes.                                            *)
(***************************************************************************)
ESC == "ESC"
\* \s
IsSpace(c) == c \in {" ", "\n", "\t"}
\* [@-Z\\-_] : 0x40-0x5A and 0x5C-0x5F
IsFe(c) == c \in {"@", "A", "M", "Z", "\\", "]", "^", "_"}
\* [0-?] : 0x30-0x3F
IsParam(c) == c \in {"0", "1", "2", "3", "4", "5", "6", "7", "8", "9", ":", ";", "<", "=", ">", "?"}
\* [ -/] : 0x20-0x2F
IsIntermediate(c) == c \in {" ", "!", "#", "$", "%", "&", "(", ")", "*", "+", ",", "-", ".", "/"}
\* [@-~] : 0x40-0x7E
IsFinal(c) == c \in {"@", "A", "M", "Z", "[", "\\", "]", "^", "_", "a", "m", "x", "~"}

\* number of leading characters of s, from position i on, that satisfy the class
RECURSIVE RunOfParams(_, _)
RunOfParams(s, i) ==
  IF i <= Len(s) /\ IsParam(s[i]) THEN 1 + RunOfParams(s, i + 1) ELSE 0

RECURSIVE RunOfIntermediates(_, _)
RunOfIntermediates(s, i) ==
  IF i <= Len(s) /\ IsIntermediate(s[i]) THEN 1 + RunOfIntermediates(s, i + 1) ELSE 0

\* length of the match of \x1B(?:[@-Z\\-_]|\[[0-?]*[ -/]*[@-~]) at the head of
\* s, 0 when it does not match there.  The three classes of the second
\* alternative are disjoint, so the greedy match is the only one.
EscapeLen(s) ==
  IF Len(s) < 2 \/ s[1] # ESC THEN 0
  ELSE IF IsFe(s[2]) THEN 2
  ELSE IF s[2] # "[" THEN 0
  ELSE LET p == RunOfParams(s, 3)
           q == RunOfIntermediates(s, 3 + p)
           f == 3 + p + q
       IN IF f <= Len(s) /\ IsFinal(s[f]) THEN f ELSE 0

\* re.sub(<the escape pattern>, '', text)
RECURSIVE StripAnsi(_)
StripAnsi(s) ==
  IF s = <<>> THEN <<>>
  ELSE LET n == EscapeLen(s)
       IN IF n > 0 THEN StripAnsi(SubSeq(s, n + 1, Len(s)))
          ELSE <<Head(s)>> \o StripAnsi(Tail(s))

\* re.sub(r'\s+', ' ', text)
RECURSIVE CollapseSpace(_)
CollapseSpace(s) ==
  IF s = <<>> THEN <<>>
  ELSE IF IsSpace(Head(s))
       THEN IF Len(s) > 1 /\ IsSpace(s[2]) THEN CollapseSpace(Tail(s))
            ELSE <<" ">> \o CollapseSpace(Tail(s))
       ELSE <<Head(s)>> \o CollapseSpace(Tail(s))

RECURSIVE LStrip(_)
LStrip(s) == IF s # <<>> /\ IsSpace(Head(s)) THEN LStrip(Tail(s)) ELSE s

RECURSIVE RStrip(_)
RStrip(s) ==
  IF s # <<>> /\ IsSpace(s[Len(s)]) THEN RStrip(SubSeq(s, 1, Len(s) - 1)) ELSE s

\* str.strip()
Strip(s) == RStrip(LStrip(s))

\* normalize_output(text, normalize_rules_set)
normalize_output(text, normalize_rules_set) ==
  IF text = <<>> THEN <<>>
  ELSE LET t1 == IF "ansi" \in normalize_rules_set THEN StripAnsi(text) ELSE text
       IN IF "whitespace" \in normalize_rules_set THEN Strip(CollapseSpace(t1)) ELSE t1

(***************************************************************************)
(* Regular expressions.  The patterns of the model are written with the    *)
(* literal characters ESC, space, newline and letters, the wildcard "."    *)
(* and "[", which opens a character set that nothing closes: re.compile    *)
(* raises re.error for it.                                                 *)
(***************************************************************************)
RegexCompiles(pattern) == \A i \in DOMAIN pattern : pattern[i] # "["

RegexMatchesAt(pattern, text, k) ==
  /\ k + Len(pattern) - 1 <= Len(text)
  /\ \A i \in DOMAIN pattern :
        IF pattern[i] = "." THEN text[k + i - 1] # "\n"
        ELSE text[k + i - 1] = pattern[i]

\* bool(re.search(pattern, text)) for a pattern that compiles
re_search(pattern, text) ==
  \E k \in 1..(Len(text) + 1) : RegexMatchesAt(pattern, text, k)

\* expected in actual
Contains(expected, actual) ==
  \E k \in 1..(Len(actual) + 1) :
     /\ k + Len(expected) - 1 <= Len(actual)
     /\ \A i \in DOMAIN expected : actual[k + i - 1] = expected[i]


(***************************************************************************)
(* Elements of a parsed document (xml.etree.ElementTree.Element): a tag,   *)
(* attributes (a function from names to values), text and children.        *)
(***************************************************************************)
NoAttrs == <<>>

El(tag, attrib, text, children) ==
  [tag |-> tag, attrib |-> attrib, text |-> text, children |-> children]

\* element.findall(tag)
findall(element, tag) == SelectSeq(element.children, LAMBDA c : c.tag = tag)

\* element.find(tag) is not None
has(element, tag) == \E i \in DOMAIN element.children : element.children[i].tag = tag

\* element.find(tag), for an element that has such a child
find(element, tag) == findall(element, tag)[1]

\* element.get(name, default)
get(element, name, default) ==
  IF name \in DOMAIN element.attrib THEN element.attrib[name] ELSE default

\* the items of a sequence, as a set
Range(s) == {s[i] : i \in DOMAIN s}

(***************************************************************************)
(* Conversions of attribute values and texts                               *)
(***************************************************************************)
Digits == {"0", "1", "2", "3", "4", "5", "6", "7", "8", "9"}

DigitValue(c) ==
  CASE c = "0" -> 0 [] c = "1" -> 1 [] c = "2" -> 2 [] c = "3" -> 3 [] c = "4" -> 4
    [] c = "5" -> 5 [] c = "6" -> 6 [] c = "7" -> 7 [] c = "8" -> 8 [] c = "9" -> 9

Unsigned(s) == IF s # <<>> /\ Head(s) \in {"-", "+"} THEN Tail(s) ELSE s

\* float(s) does not raise ValueError: an optional sign, digits, at most one
\* point and at least one digit, surrounding whitespace ignored
FloatParses(s) ==
  LET u == Unsigned(Strip(s))
  IN /\ \A i \in DOMAIN u : u[i] \in Digits \cup {"."}
     /\ \E i \in DOMAIN u : u[i] \in Digits
     /\ Cardinality({i \in DOMAIN u : u[i] = "."}) <= 1

\* int(s) does not raise ValueError: an optional sign and at least one digit
IntParses(s) ==
  LET u == Unsigned(Strip(s))
  IN u # <<>> /\ \A i \in DOMAIN u : u[i] \in Digits

RECURSIVE DigitsValue(_)
DigitsValue(u) ==
  IF u = <<>> THEN 0
  ELSE 10 * DigitsValue(SubSeq(u, 1, Len(u) - 1)) + DigitValue(u[Len(u)])

\* int(s), for a text int accepts
IntValue(s) ==
  LET t == Strip(s)
  IN IF t # <<>> /\ Head(t) = "-" THEN 0 - DigitsValue(Tail(t)) ELSE DigitsValue(Unsigned(t))

\* rule.strip().lower() for one item of a normalize attribute
StripLower(item) ==
  CASE item \in {"ansi", " ansi", "ANSI"} -> "ansi"
    [] item \in {"whitespace", " whitespace", "Whitespace"} -> "whitespace"
    [] item \in {"", " "} -> ""
    [] OTHER -> item

\* {rule.strip().lower() for rule in value.split(',') if rule.strip()}; the
\* attribute value is the sequence of its comma-separated items
NormalizeRules(items) == {StripLower(items[i]) : i \in DOMAIN items} \ {""}

(***************************************************************************)
(* Manual validation (clitest.py 191-293).  An error is a short code for   *)
(* the message the code appends.                                           *)
(***************************************************************************)
\* _is_non_empty_string(text)
is_non_empty_string(text) == text # <<>> /\ Strip(text) # <<>>

validate_element(element, known_children, known_attrs) ==
  LET child_tags == {element.children[i].tag : i \in DOMAIN element.children}
  IN (IF child_tags \ known_children # {} THEN <<"unknown child element(s)">> ELSE <<>>)
     \o (IF (DOMAIN element.attrib) \ known_attrs # {}
         THEN <<"unknown attribute(s)">> ELSE <<>>)

validate_stream(element) ==
  validate_element(element, {}, {"match", "normalize"})
  \o (IF "match" \in DOMAIN element.attrib
         /\ element.attrib["match"] \notin {"exact", "contains", "regex"}
      THEN <<"invalid 'match' attribute value">> ELSE <<>>)
  \o (IF "normalize" \in DOMAIN element.attrib
         /\ NormalizeRules(element.attrib["normalize"]) \ VALID_NORMALIZERS # {}
      THEN <<"invalid 'normalize' keyword(s)">> ELSE <<>>)

validate_expect(element) ==
  validate_element(element, {"stdout", "stderr", "exit_code"}, {})
  \o (IF element.children = <<>> THEN <<"<expect> block cannot be empty">> ELSE <<>>)
  \o (IF Len(findall(element, "stdout")) > 1 THEN <<"multiple <stdout>">> ELSE <<>>)
  \o (IF Len(findall(element, "stderr")) > 1 THEN <<"multiple <stderr>">> ELSE <<>>)
  \o (IF Len(findall(element, "exit_code")) > 1 THEN <<"multiple <exit_code>">> ELSE <<>>)
  \o (IF has(element, "stdout") THEN validate_stream(find(element, "stdout")) ELSE <<>>)
  \o (IF has(element, "stderr") THEN validate_stream(find(element, "stderr")) ELSE <<>>)
  \o (IF has(element, "exit_code") /\ ~IntParses(find(element, "exit_code").text)
      THEN <<"<exit_code> must contain a valid integer">> ELSE <<>>)

validate_test_case(element) ==
  validate_element(element, {"environment", "command", "args", "stdin", "expect"},
                   {"description", "timeout"})
  \o (IF get(element, "timeout", <<>>) # <<>> /\ ~FloatParses(element.attrib["timeout"])
      THEN <<"<test-case> has an invalid 'timeout' attribute">> ELSE <<>>)
  \o (IF ~has(element, "command") THEN <<"missing required <command> child">>
      ELSE IF ~is_non_empty_string(find(element, "command").text)
           THEN <<"<command> tag cannot be empty">> ELSE <<>>)
  \o (IF has(element, "args")
      THEN LET args == findall(find(element, "args"), "arg")
           IN (IF args = <<>> THEN <<"<args> must contain at least one <arg> tag">> ELSE <<>>)
              \o [i \in DOMAIN SelectSeq(args, LAMBDA a : ~is_non_empty_string(a.text))
                    |-> "<arg> tag cannot be empty"]
      ELSE <<>>)
  \o (IF ~has(element, "expect") THEN <<"missing required <expect> child">>
      ELSE validate_expect(find(element, "expect")))

\* the errors of the test cases, in document order (the loop of lines 286-291)
RECURSIVE CaseErrors(_)
CaseErrors(cases) ==
  IF cases = <<>> THEN <<>>
  ELSE LET case_errors == validate_test_case(Head(cases))
       IN (IF case_errors # <<>> THEN <<"Invalid test case">> \o case_errors ELSE <<>>)
          \o CaseErrors(Tail(cases))

\* validate_suite_manually(suite_path) for a file that exists: a file is
\* [wellformed, root]; the result is [tree, errors], tree being FALSE for None
validate_suite_manually(file) ==
  IF ~file.wellformed
  THEN [tree |-> FALSE, errors |-> <<"XML is not well-formed">>]
  ELSE IF file.root.tag # "test-suite"
  THEN [tree |-> FALSE, errors |-> <<"Invalid root element">>]
  ELSE LET root == file.root
       IN [tree |-> TRUE,
           errors |->
             validate_element(root, {"environment", "test-cases"}, {"description", "timeout"})
             \o (IF get(root, "timeout", <<>>) # <<>> /\ ~FloatParses(root.attrib["timeout"])
                 THEN <<"<test-suite> has an invalid 'timeout' attribute">> ELSE <<>>)
             \o (IF ~has(root, "test-cases") THEN <<"missing required <test-cases> child">>
                 ELSE validate_element(find(root, "test-cases"), {"test-case"}, {})
                      \o CaseErrors(findall(find(root, "test-cases"), "test-case")))]

(***************************************************************************)
(* Stream comparison (clitest.py 303-320)                                  *)
(***************************************************************************)
\* lines 314-320 on the normalized texts; raised is re.error out of
\* re.search, which compare_streams does not catch
match_streams(match_type, normalized_actual, normalized_expected) ==
  [raised |-> match_type = "regex" /\ ~RegexCompiles(normalized_expected),
   passed |->
     \/ match_type = "exact" /\ normalized_actual = normalized_expected
     \/ match_type = "contains" /\ Contains(normalized_expected, normalized_actual)
     \/ /\ match_type = "regex" /\ RegexCompiles(normalized_expected)
        /\ re_search(normalized_expected, normalized_actual),
   got |-> normalized_actual,
   expected |-> normalized_expected]

\* line 312 without its condition: the expected text is always normalized
normalized_expected_always(expected_text, normalize_rules) ==
  normalize_output(expected_text, normalize_rules)

\* line 312
normalized_expected_of(expected_text, normalize_rules) ==
  IF "whitespace" \in normalize_rules
  THEN normalize_output(expected_text, normalize_rules) ELSE expected_text

\* compare_streams(actual_output, expect_element)
compare_streams(actual_output, expect_element) ==
  match_streams(get(expect_element, "match", "exact"),
                normalize_output(actual_output,
                                 NormalizeRules(get(expect_element, "normalize", <<>>))),
                normalized_expected_of(expect_element.text,
                                       NormalizeRules(get(expect_element, "normalize", <<>>))))

(***************************************************************************)
(* The stream assertions of run_test_case (clitest.py 386-396): a stream   *)
(* is compared only when <expect> has a child for it.                      *)
(***************************************************************************)
stream_outcome(r) ==
  [evaluated |-> TRUE, raised |-> r.raised, failed |-> ~r.raised /\ ~r.passed]

check_stream(expect_el, tag, actual_output) ==
  IF ~has(expect_el, tag)
  THEN [evaluated |-> FALSE, raised |-> FALSE, failed |-> FALSE]
  ELSE stream_outcome(compare_streams(actual_output, find(expect_el, tag)))

(***************************************************************************)
(* Suite documents given to the runner.  They are built from the document  *)
(* shape: a suite with an optional environment block and test cases, each  *)
(* with an optional environment block, a command, arguments, stdin and     *)
(* expectations.                                                           *)
(***************************************************************************)
Cmd(text) == El("command", NoAttrs, text, <<>>)

Variable(name, value) == El("variable", "name" :> name, value, <<>>)

Block(tag, commands) == IF commands = <<>> THEN <<>> ELSE <<El(tag, NoAttrs, <<>>, commands)>>

\* an <environment>; wrapped puts the <variable> elements inside a <variables>
\* element, otherwise they are children of <environment> itself
EnvBlock(wd, variables, wrapped, setup, teardown) ==
  El("environment", NoAttrs, <<>>,
     (IF wd = <<>> THEN <<>> ELSE <<El("working-directory", NoAttrs, wd, <<>>)>>)
     \o (IF variables = <<>> THEN <<>>
         ELSE IF wrapped THEN <<El("variables", NoAttrs, <<>>, variables)>> ELSE variables)
     \o Block("setup", setup) \o Block("teardown", teardown))

Commands(name, n) == [i \in 1..n |-> Cmd(<<name, " ", IF i = 1 THEN "1" ELSE IF i = 2 THEN "2" ELSE "3">>)]

ExitCode(text) == El("exit_code", NoAttrs, text, <<>>)

\* the kinds of test case of the generated documents
CaseKinds == <<"plain", "stdout-only", "with-environment", "regex", "bad-regex">>

CaseOfKind(kind, wrapped) ==
  CASE kind = "plain" ->
         El("test-case", "description" :> kind, <<>>,
            <<Cmd(<<"prog">>), El("expect", NoAttrs, <<>>, <<ExitCode(<<"0">>)>>)>>)
    [] kind = "stdout-only" ->
         El("test-case", "description" :> kind, <<>>,
            <<Cmd(<<"prog">>),
              El("expect", NoAttrs, <<>>, <<El("stdout", NoAttrs, <<"A">>, <<>>)>>)>>)
    [] kind = "with-environment" ->
         El("test-case", ("description" :> kind) @@ ("timeout" :> <<"1">>), <<>>,
            <<EnvBlock(<<"case-dir">>, <<Variable("X", <<"case">>)>>, wrapped,
                       <<Cmd(<<"case-setup">>)>>, <<Cmd(<<"case-teardown">>)>>),
              Cmd(<<" ", "prog">>),
              El("args", NoAttrs, <<>>, <<El("arg", NoAttrs, <<"-v">>, <<>>)>>),
              El("stdin", NoAttrs, <<"input">>, <<>>),
              El("expect", NoAttrs, <<>>,
                 <<El("stdout", "match" :> "contains", <<"A">>, <<>>),
                   El("stderr", "normalize" :> <<"whitespace">>, <<>>, <<>>),
                   ExitCode(<<" ", "1">>)>>)>>)
    [] kind = "regex" ->
         El("test-case", "description" :> kind, <<>>,
            <<Cmd(<<"prog">>),
              El("expect", NoAttrs, <<>>,
                 <<El("stderr", "match" :> "regex", <<".">>, <<>>)>>)>>)
    [] kind = "bad-regex" ->
         El("test-case", "description" :> kind, <<>>,
            <<Cmd(<<"prog">>),
              El("expect", NoAttrs, <<>>,
                 <<El("stdout", "match" :> "regex", <<"[">>, <<>>)>>)>>)

\* n cases, of the kinds that follow the first one in CaseKinds
CaseList(first, n, wrapped) ==
  [j \in 1..n |-> CaseOfKind(CaseKinds[((first + j - 2) % Len(CaseKinds)) + 1], wrapped)]

SuiteDoc(attrib, environment, cases) ==
  El("test-suite", attrib, <<>>,
     environment \o <<El("test-cases", NoAttrs, <<>>, cases)>>)

File(root, flaw) == [exists |-> TRUE, wellformed |-> TRUE, root |-> root, flaw |-> flaw]

NoFlaw == [kind |-> "none", under |-> "", at |-> "", what |-> ""]

TimeoutAttrs == {NoAttrs, "timeout" :> <<"5">>}

\* suites with up to MaxCmds setup commands, without teardown or with MaxCmds
\* teardown commands, variables in either place, with and without a suite
\* timeout, and up to MaxCases cases
LifecycleDocs ==
  {SuiteDoc(t, <<>>, CaseList(first, n, FALSE)) :
     t \in TimeoutAttrs, first \in DOMAIN CaseKinds, n \in 0..MaxCases}
  \cup
  {SuiteDoc(t, <<EnvBlock(<<"suite-dir">>, <<Variable("X", <<"suite">>), Variable("Y", <<"suite">>)>>,
                          wrapped, Commands("setup", ns), Commands("teardown", nt))>>,
            CaseList(first, n, wrapped)) :
     t \in TimeoutAttrs, wrapped \in BOOLEAN, ns \in 0..MaxCmds, nt \in {0, MaxCmds},
     first \in DOMAIN CaseKinds, n \in 0..MaxCases}

(***************************************************************************)
(* Documents that violate one rule of the document shape.  A position is   *)
(* an element of the shape under its parent; a flaw is one violation at    *)
(* one position.                                                           *)
(***************************************************************************)
Positions ==
  {<<"", "test-suite">>, <<"test-suite", "environment">>, <<"test-suite", "test-cases">>,
   <<"environment", "working-directory">>, <<"environment", "variable">>,
   <<"environment", "setup">>, <<"environment", "teardown">>,
   <<"setup", "command">>, <<"teardown", "command">>,
   <<"test-cases", "test-case">>, <<"test-case", "environment">>,
   <<"test-case", "command">>, <<"test-case", "args">>, <<"args", "arg">>,
   <<"test-case", "stdin">>, <<"test-case", "expect">>,
   <<"expect", "stdout">>, <<"expect", "stderr">>, <<"expect", "exit_code">>}

Flaw(kind, position, what) ==
  [kind |-> kind, under |-> position[1], at |-> position[2], what |-> what]

\* a child the shape allows at most once, given twice
TooMany ==
  {<<<<"", "test-suite">>, "environment">>, <<<<"", "test-suite">>, "test-cases">>,
   <<<<"test-suite", "environment">>, "working-directory">>,
   <<<<"test-suite", "environment">>, "setup">>,
   <<<<"test-suite", "environment">>, "teardown">>,
   <<<<"test-case", "environment">>, "setup">>,
   <<<<"test-case", "environment">>, "teardown">>,
   <<<<"test-cases", "test-case">>, "environment">>,
   <<<<"test-cases", "test-case">>, "command">>,
   <<<<"test-cases", "test-case">>, "args">>,
   <<<<"test-cases", "test-case">>, "stdin">>,
   <<<<"test-cases", "test-case">>, "expect">>,
   <<<<"test-case", "expect">>, "stdout">>,
   <<<<"test-case", "expect">>, "stderr">>,
   <<<<"test-case", "expect">>, "exit_code">>}

\* a child the shape requires, left out
TooFew ==
  {<<<<"", "test-suite">>, "test-cases">>,
   <<<<"environment", "setup">>, "command">>,
   <<<<"environment", "teardown">>, "command">>,
   <<<<"test-cases", "test-case">>, "command">>,
   <<<<"test-cases", "test-case">>, "expect">>,
   <<<<"test-case", "args">>, "arg">>}

Flaws ==
  {Flaw("unknown attribute", p, "") : p \in Positions}
  \cup {Flaw("unknown child", p, "") : p \in Positions}
  \cup {Flaw("too many", x[1], x[2]) : x \in TooMany}
  \cup {Flaw("too few", x[1], x[2]) : x \in TooFew}
  \cup {Flaw("empty", <<"test-case", "expect">>, ""),
        Flaw("invalid attribute", <<"", "test-suite">>, "timeout"),
        Flaw("invalid attribute", <<"test-cases", "test-case">>, "timeout"),
        Flaw("invalid attribute", <<"expect", "stdout">>, "match"),
        Flaw("invalid attribute", <<"expect", "stderr">>, "match"),
        Flaw("invalid attribute", <<"expect", "stdout">>, "normalize"),
        Flaw("invalid attribute", <<"expect", "stderr">>, "normalize"),
        Flaw("invalid text", <<"expect", "exit_code">>, "x"),
        Flaw("invalid text", <<"test-case", "command">>, " "),
        Flaw("invalid text", <<"args", "arg">>, " ")}

InvalidValue(attribute) ==
  CASE attribute = "timeout" -> <<"x">>
    [] attribute = "match" -> "fuzzy"
    [] attribute = "normalize" -> <<"ansi", "bogus">>

\* children with the first child of the given tag given twice
RECURSIVE Doubled(_, _)
Doubled(children, tag) ==
  IF children = <<>> THEN <<>>
  ELSE IF Head(children).tag = tag THEN <<Head(children)>> \o children
  ELSE <<Head(children)>> \o Doubled(Tail(children), tag)

\* the document with the flaw applied at every element at the flaw's position
RECURSIVE Mutate(_, _, _)
Mutate(element, parent, flaw) ==
  LET e == [element EXCEPT
              !.children = [i \in DOMAIN element.children |->
                              Mutate(element.children[i], element.tag, flaw)]]
  IN IF element.tag # flaw.at \/ parent # flaw.under THEN e
     ELSE CASE flaw.kind = "unknown attribute" ->
                 [e EXCEPT !.attrib = ("bogus" :> <<"1">>) @@ @]
            [] flaw.kind = "unknown child" ->
                 [e EXCEPT !.children = Append(@, El("bogus", NoAttrs, <<>>, <<>>))]
            [] flaw.kind = "too many" ->
                 [e EXCEPT !.children = Doubled(@, flaw.what)]
            [] flaw.kind = "too few" ->
                 [e EXCEPT !.children = SelectSeq(@, LAMBDA c : c.tag # flaw.what)]
            [] flaw.kind = "empty" -> [e EXCEPT !.children = <<>>]
            [] flaw.kind = "invalid attribute" ->
                 [e EXCEPT !.attrib = (flaw.what :> InvalidValue(flaw.what)) @@ @]
            [] flaw.kind = "invalid text" ->
                 [e EXCEPT !.text = IF flaw.what = " " THEN <<" ">> ELSE <<flaw.what>>]

\* a document with every element of the shape, <variable> directly under
\* <environment>
FullDoc ==
  SuiteDoc(("description" :> "full") @@ ("timeout" :> <<"5">>),
           <<EnvBlock(<<"suite-dir">>, <<Variable("X", <<"suite">>)>>, FALSE,
                      Commands("setup", 1), Commands("teardown", 1))>>,
           <<CaseOfKind("with-environment", FALSE)>>)

FlawedFiles == {File(Mutate(FullDoc, "", f), f) : f \in Flaws}

MissingFile ==
  [exists |-> FALSE, wellformed |-> FALSE, root |-> El("", NoAttrs, <<>>, <<>>),
   flaw |-> [NoFlaw EXCEPT !.kind = "file not found"]]

MalformedFile ==
  [exists |-> TRUE, wellformed |-> FALSE, root |-> El("", NoAttrs, <<>>, <<>>),
   flaw |-> [NoFlaw EXCEPT !.kind = "not well-formed"]]

WrongRootFile ==
  [exists |-> TRUE, wellformed |-> TRUE,
   root |-> El("suite", NoAttrs, <<>>, FullDoc.children),
   flaw |-> [NoFlaw EXCEPT !.kind = "wrong root"]]

\* a short suite for the runs of two suites
ShortDoc ==
  SuiteDoc(NoAttrs,
           <<EnvBlock(<<>>, <<>>, FALSE, Commands("setup", 1), Commands("teardown", 1))>>,
           CaseList(1, 1, FALSE))

PairFiles ==
  {File(ShortDoc, NoFlaw), MissingFile, MalformedFile, WrongRootFile,
   File(Mutate(FullDoc, "", Flaw("unknown attribute", <<"", "test-suite">>, "")),
        Flaw("unknown attribute", <<"", "test-suite">>, ""))}

\* the SUITE arguments of a run
Runs ==
  {<<File(d, NoFlaw)>> : d \in LifecycleDocs}
  \cup {<<f>> : f \in FlawedFiles \cup {MissingFile, MalformedFile, WrongRootFile}}
  \cup {<<f, g>> : f \in PairFiles, g \in PairFiles}

(***************************************************************************)
(* State                                                                   *)
(***************************************************************************)
VARIABLES
  args,               \* the parsed command line: [list_cases]
  files,              \* args.suites: the files named on the command line
  pc,                 \* where the runner is
  idx,                \* position of the loop over args.suites, then over parsed_trees
  has_errors,         \* main's has_errors
  parsed_trees,       \* main's parsed_trees: the positions in files of the validated suites
  all_suite_results,  \* the SuiteResults of the suites run so far
  exit_code,          \* what main returned, -1 before it returns
  suite_env,          \* run_suite's suite_env
  suite_result,       \* run_suite's suite_result
  case_idx,           \* position of run_suite's loop over the test cases
  cmd_idx,            \* position of the loop over the commands of a block
  current_env,        \* run_test_case's current_env
  working_dir,        \* run_test_case's working_dir
  timeout_val,        \* run_test_case's timeout_val, <<>> for None
  process,            \* run_test_case's process: what the command under test left
  spawned,            \* every process spawned so far, in order
  compared,           \* every assertion evaluated so far, in order
  attempted,          \* every call of run_test_case so far: <<file, case>>, in order
  cmp                 \* comparison specification: the expectation, the output, the outcome

vars == <<args, files, pc, idx, has_errors, parsed_trees, all_suite_results, exit_code,
          suite_env, suite_result, case_idx, cmd_idx, current_env, working_dir,
          timeout_val, process, spawned, compared, attempted, cmp>>

\* os.environ
AmbientEnv == ("PATH" :> <<"/bin">>) @@ ("X" :> <<"ambient">>)

NoProcess == [stdout |-> <<>>, stderr |-> <<>>, returncode |-> 0]

NoSuiteEnv == [variables |-> <<>>, working_dir |-> <<>>, timeout |-> <<>>]

\* SuiteResult(description, path)
NewSuiteResult == [error |-> "", test_cases |-> <<>>]

IdleCmp == [expect |-> El("expect", NoAttrs, <<>>, <<>>), actual |-> <<>>, outcome |-> "idle"]

\* what the processes of the model write and return
ProcStdout == {<<>>, <<"A">>}
ProcStderr == {<<>>, <<"e">>}
ReturnCodes == {0, 1}

Init ==
  /\ args \in [list_cases : BOOLEAN]
  /\ files \in Runs
  /\ pc = "validate"
  /\ idx = 1
  /\ has_errors = FALSE
  /\ parsed_trees = <<>>
  /\ all_suite_results = <<>>
  /\ exit_code = -1
  /\ suite_env = NoSuiteEnv
  /\ suite_result = NewSuiteResult
  /\ case_idx = 0
  /\ cmd_idx = 0
  /\ current_env = <<>>
  /\ working_dir = <<>>
  /\ timeout_val = <<>>
  /\ process = NoProcess
  /\ spawned = <<>>
  /\ compared = <<>>
  /\ attempted = <<>>
  /\ cmp = IdleCmp

(***************************************************************************)
(* Reading the document                                                    *)
(***************************************************************************)
\* the root of the suite run_suite is running
Root == files[parsed_trees[idx]].root

\* the <command> children of a block of an <environment>, <<>> without one
BlockCommands(parent, tag) ==
  IF has(parent, "environment") /\ has(find(parent, "environment"), tag)
  THEN findall(find(find(parent, "environment"), tag), "command")
  ELSE <<>>

\* the dictionary the loop `d[var_el.get("name")] = var_el.text or ""` builds
RECURSIVE VariablesOf(_)
VariablesOf(variable_elements) ==
  IF variable_elements = <<>> THEN <<>>
  ELSE LET n == Len(variable_elements)
           last == variable_elements[n]
       IN (get(last, "name", "None") :> last.text)
          @@ VariablesOf(SubSeq(variable_elements, 1, n - 1))

\* the variables an <environment> declares, as run_suite and run_test_case
\* read them: the <variable> children of its <variables> child
DeclaredVariables(parent) ==
  IF has(parent, "environment") /\ has(find(parent, "environment"), "variables")
  THEN VariablesOf(findall(find(find(parent, "environment"), "variables"), "variable"))
  ELSE <<>>

\* the working directory an <environment> sets, otherwise the given one
DeclaredWorkingDir(parent, otherwise) ==
  IF /\ has(parent, "environment")
     /\ has(find(parent, "environment"), "working-directory")
     /\ find(find(parent, "environment"), "working-directory").text # <<>>
  THEN Strip(find(find(parent, "environment"), "working-directory").text)
  ELSE otherwise

\* float(text): the number is kept as the text that denotes it
float(text) == Strip(text)

\* root.findall of the test cases
TestCases(root) == findall(find(root, "test-cases"), "test-case")

CaseEl == TestCases(Root)[case_idx]

(***************************************************************************)
(* Results                                                                 *)
(***************************************************************************)
TestCaseResult(description, passed, message, error_type) ==
  [description |-> description, passed |-> passed, message |-> message,
   error_type |-> error_type]

\* run_test_case's fail_early(message, diags)
fail_early(case_element, message, error_type) ==
  TestCaseResult(get(case_element, "description", "Unnamed Test Case"), FALSE,
                 message, error_type)

\* run_command_in_env's result for each way the shell command can end
run_command_in_env(outcome) ==
  CASE outcome = "exit 0" -> [success |-> TRUE, msg |-> ""]
    [] outcome = "exit 1" -> [success |-> FALSE, msg |-> "failed with exit code"]
    [] outcome = "not found" -> [success |-> FALSE, msg |-> "Command not found"]

ShellOutcomes == {"exit 0", "exit 1", "not found"}

\* a process spawned: which command of which block (n its position in the
\* block), what subprocess.run was given, and how the process ended
Spawn(kind, case, n, command, env, cwd, timeout, outcome) ==
  [kind |-> kind, file |-> parsed_trees[idx], case |-> case, n |-> n, command |-> command,
   env |-> env, cwd |-> cwd, timeout |-> timeout, outcome |-> outcome]

(***************************************************************************)
(* main (clitest.py 468-515)                                               *)
(***************************************************************************)
runner_vars == <<suite_env, suite_result, case_idx, cmd_idx, current_env, working_dir,
                 timeout_val, process, spawned, compared, attempted>>

\* one turn of the loop over args.suites (lines 483-497)
MainValidate ==
  /\ pc = "validate"
  /\ LET file == files[idx]
         rejected == IF ~file.exists THEN TRUE
                     ELSE validate_suite_manually(file).errors # <<>>
     IN /\ has_errors' = (has_errors \/ rejected)
        /\ parsed_trees' = IF rejected THEN parsed_trees ELSE Append(parsed_trees, idx)
  /\ IF idx < Len(files)
     THEN idx' = idx + 1 /\ pc' = "validate"
     ELSE idx' = 1 /\ pc' = "dispatch"
  /\ UNCHANGED <<args, files, all_suite_results, exit_code, runner_vars, cmp>>

\* main without the gate of lines 499-500: the trees that parsed are run
MainDispatchUngated ==
  /\ pc = "dispatch"
  /\ IF args.list_cases
     THEN exit_code' = EXIT_CODE_SUCCESS /\ pc' = "done"
     ELSE exit_code' = exit_code /\ pc' = "run_suite"
  /\ UNCHANGED <<args, files, idx, has_errors, parsed_trees, all_suite_results,
                 runner_vars, cmp>>

\* lines 499-506: the gate on has_errors, --list-cases, or the first run_suite
MainDispatch ==
  /\ pc = "dispatch"
  /\ IF has_errors
     THEN exit_code' = EXIT_CODE_RUNTIME_ERROR /\ pc' = "done"
     ELSE IF args.list_cases
     THEN exit_code' = EXIT_CODE_SUCCESS /\ pc' = "done"
     ELSE exit_code' = exit_code /\ pc' = "run_suite"
  /\ UNCHANGED <<args, files, idx, has_errors, parsed_trees, all_suite_results,
                 runner_vars, cmp>>

\* SuiteResult.num_failures (lines 72-74)
num_failures(sr) == Cardinality({j \in DOMAIN sr.test_cases : ~sr.test_cases[j].passed})

\* lines 509-510 with the two tests in the other order
overall_exit_code_failures_first(results) ==
  IF \E i \in DOMAIN results : num_failures(results[i]) > 0
  THEN EXIT_CODE_TESTS_FAILED
  ELSE IF \E i \in DOMAIN results : results[i].error # ""
  THEN EXIT_CODE_RUNTIME_ERROR
  ELSE EXIT_CODE_SUCCESS

\* lines 508-510
overall_exit_code(results) ==
  IF \E i \in DOMAIN results : results[i].error # ""
  THEN EXIT_CODE_RUNTIME_ERROR
  ELSE IF \E i \in DOMAIN results : num_failures(results[i]) > 0
  THEN EXIT_CODE_TESTS_FAILED
  ELSE EXIT_CODE_SUCCESS

\* lines 508-515, once run_suite has returned for every parsed tree
MainReport ==
  /\ pc = "run_suite"
  /\ idx > Len(parsed_trees)
  /\ exit_code' = overall_exit_code(all_suite_results)
  /\ pc' = "done"
  /\ UNCHANGED <<args, files, idx, has_errors, parsed_trees, all_suite_results,
                 runner_vars, cmp>>

(***************************************************************************)
(* run_suite (clitest.py 406-449)                                          *)
(***************************************************************************)
main_vars == <<args, files, has_errors, parsed_trees, exit_code, cmp>>

\* what only RunTestCaseEnter changes
case_vars == <<current_env, working_dir, timeout_val, attempted>>

\* lines 406-425: the suite's result and environment, up to the first setup command
RunSuiteEnter ==
  /\ pc = "run_suite"
  /\ idx <= Len(parsed_trees)
  /\ suite_result' = NewSuiteResult
  /\ suite_env' =
       [variables |-> DeclaredVariables(Root),
        working_dir |-> DeclaredWorkingDir(Root, <<>>),
        timeout |-> IF get(Root, "timeout", <<>>) # <<>>
                    THEN float(Root.attrib["timeout"]) ELSE <<>>]
  /\ cmd_idx' = 1
  /\ case_idx' = 1
  /\ pc' = IF BlockCommands(Root, "setup") # <<>> THEN "suite_setup" ELSE "cases"
  /\ UNCHANGED <<main_vars, idx, all_suite_results, case_vars, process, spawned, compared>>

\* the setup loop without the return of line 431: the error is recorded and
\* the suite goes on
SuiteSetupCommandGoesOn ==
  /\ pc = "suite_setup"
  /\ \E outcome \in ShellOutcomes :
       /\ spawned' = Append(spawned,
                       Spawn("suite setup", 0, cmd_idx,
                             BlockCommands(Root, "setup")[cmd_idx].text,
                             suite_env.variables @@ AmbientEnv, suite_env.working_dir,
                             <<>>, outcome))
       /\ suite_result' = IF ~run_command_in_env(outcome).success
                          THEN [suite_result EXCEPT !.error = "Suite setup failed"]
                          ELSE suite_result
  /\ IF cmd_idx < Len(BlockCommands(Root, "setup"))
     THEN cmd_idx' = cmd_idx + 1 /\ pc' = "suite_setup"
     ELSE cmd_idx' = 1 /\ pc' = "cases"
  /\ UNCHANGED <<main_vars, idx, all_suite_results, suite_env, case_idx, case_vars,
                 process, compared>>

\* lines 426-431: one suite setup command
SuiteSetupCommand ==
  /\ pc = "suite_setup"
  /\ \E outcome \in ShellOutcomes :
       /\ spawned' = Append(spawned,
                       Spawn("suite setup", 0, cmd_idx,
                             BlockCommands(Root, "setup")[cmd_idx].text,
                             suite_env.variables @@ AmbientEnv, suite_env.working_dir,
                             <<>>, outcome))
       /\ IF ~run_command_in_env(outcome).success
          THEN /\ suite_result' = [suite_result EXCEPT !.error = "Suite setup failed"]
               /\ pc' = "suite_return"
               /\ cmd_idx' = cmd_idx
          ELSE /\ suite_result' = suite_result
               /\ IF cmd_idx < Len(BlockCommands(Root, "setup"))
                  THEN cmd_idx' = cmd_idx + 1 /\ pc' = "suite_setup"
                  ELSE cmd_idx' = 1 /\ pc' = "cases"
  /\ UNCHANGED <<main_vars, idx, all_suite_results, suite_env, case_idx, case_vars, process, compared>>

\* line 435 with no test case left, up to the first teardown command
CasesDone ==
  /\ pc = "cases"
  /\ case_idx > Len(TestCases(Root))
  /\ cmd_idx' = 1
  /\ process' = NoProcess
  /\ pc' = IF BlockCommands(Root, "teardown") # <<>> THEN "suite_teardown" ELSE "suite_return"
  /\ UNCHANGED <<main_vars, idx, all_suite_results, suite_env, suite_result, case_idx,
                 case_vars, spawned, compared>>

\* lines 442-446: one suite teardown command.  Its result is dropped, and so
\* is the way it ended
SuiteTeardownCommand ==
  /\ pc = "suite_teardown"
  /\ \E outcome \in ShellOutcomes :
       /\ spawned' = Append(spawned,
                       Spawn("suite teardown", 0, cmd_idx,
                             BlockCommands(Root, "teardown")[cmd_idx].text,
                             suite_env.variables @@ AmbientEnv, suite_env.working_dir,
                             <<>>, "dropped"))
       /\ run_command_in_env(outcome).success \in BOOLEAN
  /\ IF cmd_idx < Len(BlockCommands(Root, "teardown"))
     THEN cmd_idx' = cmd_idx + 1 /\ pc' = "suite_teardown"
     ELSE cmd_idx' = 1 /\ pc' = "suite_return"
  /\ UNCHANGED <<main_vars, idx, all_suite_results, suite_env, suite_result, case_idx,
                 case_vars, process, compared>>

\* run_suite returns (lines 431 and 449): main keeps the result and goes on
RunSuiteReturn ==
  /\ pc = "suite_return"
  /\ all_suite_results' = Append(all_suite_results, suite_result)
  /\ idx' = idx + 1
  /\ pc' = "run_suite"
  /\ UNCHANGED <<main_vars, runner_vars>>

(***************************************************************************)
(* run_test_case (clitest.py 331-404)                                      *)
(***************************************************************************)
\* the case is over with this result: line 440 appends it
CaseReturns(result) ==
  /\ suite_result' = [suite_result EXCEPT !.test_cases = Append(@, result)]
  /\ case_idx' = case_idx + 1
  /\ cmd_idx' = 1
  /\ pc' = "cases"

\* lines 341-353 with the two updates in the other order: the suite's
\* variables are laid over the case's
case_env_suite_last(case_element, suite_variables) ==
  suite_variables @@ DeclaredVariables(case_element) @@ AmbientEnv

\* lines 341-353: os.environ, then the suite's variables, then the case's
case_env(case_element, suite_variables) ==
  DeclaredVariables(case_element) @@ suite_variables @@ AmbientEnv

\* lines 331-353: the case's environment, working directory and timeout
RunTestCaseEnter ==
  /\ pc = "cases"
  /\ case_idx <= Len(TestCases(Root))
  /\ current_env' = case_env(CaseEl, suite_env.variables)
  /\ attempted' = Append(attempted, <<parsed_trees[idx], case_idx>>)
  /\ working_dir' = DeclaredWorkingDir(CaseEl, suite_env.working_dir)
  /\ timeout_val' = IF get(CaseEl, "timeout", <<>>) # <<>>
                    THEN float(CaseEl.attrib["timeout"]) ELSE suite_env.timeout
  /\ process' = NoProcess
  /\ cmd_idx' = 1
  /\ pc' = IF BlockCommands(CaseEl, "setup") # <<>> THEN "case_setup" ELSE "case_command"
  /\ UNCHANGED <<main_vars, idx, all_suite_results, suite_env, suite_result, case_idx,
                 spawned, compared>>

\* lines 354-357: one case setup command
CaseSetupCommand ==
  /\ pc = "case_setup"
  /\ \E outcome \in ShellOutcomes :
       /\ spawned' = Append(spawned,
                       Spawn("case setup", case_idx, cmd_idx,
                             BlockCommands(CaseEl, "setup")[cmd_idx].text,
                             current_env, working_dir, <<>>, outcome))
       /\ IF ~run_command_in_env(outcome).success
          THEN CaseReturns(fail_early(CaseEl, "Test case setup command failed",
                                      "ConfigurationError"))
          ELSE /\ UNCHANGED <<suite_result, case_idx>>
               /\ IF cmd_idx < Len(BlockCommands(CaseEl, "setup"))
                  THEN cmd_idx' = cmd_idx + 1 /\ pc' = "case_setup"
                  ELSE cmd_idx' = 1 /\ pc' = "case_command"
  /\ UNCHANGED <<main_vars, idx, all_suite_results, suite_env, case_vars, process, compared>>

\* the argument vector of lines 361-365
Argv(case_element) ==
  <<Strip(find(case_element, "command").text)>>
  \o (IF has(case_element, "args")
      THEN [i \in DOMAIN findall(find(case_element, "args"), "arg") |->
              findall(find(case_element, "args"), "arg")[i].text]
      ELSE <<>>)

\* line 370: subprocess.run of the command under test, and how it ended: the
\* timeout expired, the executable was not found, another exception, or the
\* process exited
SpawnTest(outcome) ==
  Spawn("test", case_idx, 1, Argv(CaseEl), current_env, working_dir, timeout_val, outcome)

\* lines 359-377 with TimeoutExpired keeping what the killed process wrote
\* and going on to the teardown and the assertions
CaseCommandKeepsPartialOutput ==
  /\ pc = "case_command"
  /\ \/ /\ timeout_val # <<>>
        /\ spawned' = Append(spawned, SpawnTest("timeout"))
        /\ process' \in [stdout : ProcStdout, stderr : ProcStderr, returncode : ReturnCodes]
        /\ UNCHANGED <<suite_result, case_idx>>
        /\ cmd_idx' = 1
        /\ pc' = IF BlockCommands(CaseEl, "teardown") # <<>> THEN "case_teardown" ELSE "assert"
     \/ /\ spawned' = Append(spawned, SpawnTest("not found"))
        /\ CaseReturns(fail_early(CaseEl, "Command execution failed", ""))
        /\ process' = process
     \/ /\ spawned' = Append(spawned, SpawnTest("error"))
        /\ CaseReturns(fail_early(CaseEl, "Unexpected error during execution", ""))
        /\ process' = process
     \/ /\ spawned' = Append(spawned, SpawnTest("exited"))
        /\ process' \in [stdout : ProcStdout, stderr : ProcStderr, returncode : ReturnCodes]
        /\ UNCHANGED <<suite_result, case_idx>>
        /\ cmd_idx' = 1
        /\ pc' = IF BlockCommands(CaseEl, "teardown") # <<>> THEN "case_teardown" ELSE "assert"
  /\ UNCHANGED <<main_vars, idx, all_suite_results, suite_env, case_vars, compared>>

\* lines 359-377: the command under test
CaseCommand ==
  /\ pc = "case_command"
  /\ \/ /\ timeout_val # <<>>
        /\ spawned' = Append(spawned, SpawnTest("timeout"))
        /\ CaseReturns(fail_early(CaseEl, "Test command timed out", "TimeoutExpired"))
        /\ process' = process
     \/ /\ spawned' = Append(spawned, SpawnTest("not found"))
        /\ CaseReturns(fail_early(CaseEl, "Command execution failed", ""))
        /\ process' = process
     \/ /\ spawned' = Append(spawned, SpawnTest("error"))
        /\ CaseReturns(fail_early(CaseEl, "Unexpected error during execution", ""))
        /\ process' = process
     \/ /\ spawned' = Append(spawned, SpawnTest("exited"))
        /\ process' \in [stdout : ProcStdout, stderr : ProcStderr, returncode : ReturnCodes]
        /\ UNCHANGED <<suite_result, case_idx>>
        /\ cmd_idx' = 1
        /\ pc' = IF BlockCommands(CaseEl, "teardown") # <<>> THEN "case_teardown" ELSE "assert"
  /\ UNCHANGED <<main_vars, idx, all_suite_results, suite_env, case_vars, compared>>

\* lines 379-382: one case teardown command
CaseTeardownCommand ==
  /\ pc = "case_teardown"
  /\ \E outcome \in ShellOutcomes :
       /\ spawned' = Append(spawned,
                       Spawn("case teardown", case_idx, cmd_idx,
                             BlockCommands(CaseEl, "teardown")[cmd_idx].text,
                             current_env, working_dir, <<>>, outcome))
       /\ IF ~run_command_in_env(outcome).success
          THEN CaseReturns(fail_early(CaseEl, "Test case teardown command failed",
                                      "ConfigurationError"))
          ELSE /\ UNCHANGED <<suite_result, case_idx>>
               /\ IF cmd_idx < Len(BlockCommands(CaseEl, "teardown"))
                  THEN cmd_idx' = cmd_idx + 1 /\ pc' = "case_teardown"
                  ELSE cmd_idx' = 1 /\ pc' = "assert"
  /\ UNCHANGED <<main_vars, idx, all_suite_results, suite_env, case_vars, process, compared>>

\* the process that subprocess.run is waiting for at lines 324 and 370, when
\* it never exits
HangingSpawn ==
  CASE pc = "suite_setup" ->
         Spawn("suite setup", 0, cmd_idx, BlockCommands(Root, "setup")[cmd_idx].text,
               suite_env.variables @@ AmbientEnv, suite_env.working_dir, <<>>, "hang")
    [] pc = "suite_teardown" ->
         Spawn("suite teardown", 0, cmd_idx, BlockCommands(Root, "teardown")[cmd_idx].text,
               suite_env.variables @@ AmbientEnv, suite_env.working_dir, <<>>, "hang")
    [] pc = "case_setup" ->
         Spawn("case setup", case_idx, cmd_idx, BlockCommands(CaseEl, "setup")[cmd_idx].text,
               current_env, working_dir, <<>>, "hang")
    [] pc = "case_teardown" ->
         Spawn("case teardown", case_idx, cmd_idx,
               BlockCommands(CaseEl, "teardown")[cmd_idx].text,
               current_env, working_dir, <<>>, "hang")
    [] pc = "case_command" -> SpawnTest("hang")

\* lines 324 and 370: subprocess.run waits for the process.  Line 324 passes
\* no timeout, and line 370 passes timeout_val, which is None when neither
\* the case nor the suite has a timeout: a process that never exits then
\* blocks the run for good
ProcessHangs ==
  /\ \/ pc \in {"suite_setup", "suite_teardown", "case_setup", "case_teardown"}
     \/ pc = "case_command" /\ timeout_val = <<>>
  /\ spawned' = Append(spawned, HangingSpawn)
  /\ pc' = "blocked"
  /\ UNCHANGED <<main_vars, idx, all_suite_results, suite_env, suite_result, case_idx,
                 cmd_idx, case_vars, process, compared>>

\* lines 398-402 with 0 expected when <expect> has no <exit_code>
exit_code_mismatch_default_zero(expect_el, returncode) ==
  returncode # (IF has(expect_el, "exit_code")
                THEN IntValue(find(expect_el, "exit_code").text) ELSE 0)

\* lines 398-402: the exit code is compared when <expect> has an <exit_code>
exit_code_mismatch(expect_el, returncode) ==
  /\ has(expect_el, "exit_code")
  /\ returncode # IntValue(find(expect_el, "exit_code").text)

\* lines 386-404, given the outcome of the two stream assertions: the
\* assertions evaluated, in order, and either the exception that ends them or
\* the case's result
assertion_outcome(case_element, expect_el, proc, out, err) ==
  IF out.raised
  THEN [raised |-> TRUE, evaluated |-> <<"stdout">>,
        result |-> fail_early(case_element, "", "")]
  ELSE IF out.failed
  THEN [raised |-> FALSE, evaluated |-> <<"stdout">>,
        result |-> fail_early(case_element, "stdout mismatch", "")]
  ELSE IF err.raised
  THEN [raised |-> TRUE,
        evaluated |-> (IF out.evaluated THEN <<"stdout">> ELSE <<>>) \o <<"stderr">>,
        result |-> fail_early(case_element, "", "")]
  ELSE IF err.failed
  THEN [raised |-> FALSE,
        evaluated |-> (IF out.evaluated THEN <<"stdout">> ELSE <<>>) \o <<"stderr">>,
        result |-> fail_early(case_element, "stderr mismatch", "")]
  ELSE [raised |-> FALSE,
        evaluated |-> (IF out.evaluated THEN <<"stdout">> ELSE <<>>)
                      \o (IF err.evaluated THEN <<"stderr">> ELSE <<>>)
                      \o (IF has(expect_el, "exit_code") THEN <<"exit_code">> ELSE <<>>),
        result |->
          IF exit_code_mismatch(expect_el, proc.returncode)
          THEN fail_early(case_element, "Exit code mismatch", "")
          ELSE TestCaseResult(get(case_element, "description", "Unnamed Test Case"),
                              TRUE, "", "")]

\* lines 386-396 with the two streams taken in the other order
AssertionsStderrFirst(case_element, proc) ==
  assertion_outcome(case_element, find(case_element, "expect"), proc,
                    check_stream(find(case_element, "expect"), "stderr", proc.stderr),
                    check_stream(find(case_element, "expect"), "stdout", proc.stdout))

\* lines 384-404 on what the command left
Assertions(case_element, proc) ==
  assertion_outcome(case_element, find(case_element, "expect"), proc,
                    check_stream(find(case_element, "expect"), "stdout", proc.stdout),
                    check_stream(find(case_element, "expect"), "stderr", proc.stderr))

\* the assertions are over: re.error leaves run_test_case, run_suite and main
\* (line 519: the interpreter ends with status 1 on an uncaught exception),
\* otherwise the case returns its result
AssertionsEnd(a) ==
  /\ compared' = compared \o
       [i \in DOMAIN a.evaluated |->
          [file |-> parsed_trees[idx], case |-> case_idx, stream |-> a.evaluated[i]]]
  /\ IF a.raised
     THEN pc' = "crashed" /\ exit_code' = 1 /\ UNCHANGED <<suite_result, case_idx, cmd_idx>>
     ELSE CaseReturns(a.result) /\ exit_code' = exit_code

\* lines 384-404: the assertions
CaseAssertions ==
  /\ pc = "assert"
  /\ AssertionsEnd(Assertions(CaseEl, process))
  /\ UNCHANGED <<args, files, has_errors, parsed_trees, cmp, idx, all_suite_results,
                 suite_env, case_vars, process, spawned>>

Next ==
  \/ MainValidate
  \/ MainDispatch
  \/ RunSuiteEnter
  \/ SuiteSetupCommand
  \/ RunTestCaseEnter
  \/ CaseSetupCommand
  \/ CaseCommand
  \/ CaseTeardownCommand
  \/ ProcessHangs
  \/ CaseAssertions
  \/ CasesDone
  \/ SuiteTeardownCommand
  \/ RunSuiteReturn
  \/ MainReport

Spec == Init /\ [][Next]_vars


(***************************************************************************)
(* The comparison on its own: compare_streams applied to one <expect>     *)
(* block and one captured standard output, over every text of the         *)
(* alphabet below.  The alphabet holds the escape character and "[" (an   *)
(* ANSI sequence and an unterminated regex set), a blank, a letter and    *)
(* the regex wildcard.                                                    *)
(***************************************************************************)
Alphabet == {ESC, "[", " ", "A", "."}

RECURSIVE TextsUpTo(_)
TextsUpTo(n) ==
  IF n = 0 THEN {<<>>}
  ELSE LET shorter == TextsUpTo(n - 1)
       IN shorter \cup {Append(t, c) : t \in shorter, c \in Alphabet}

\* what the process may have written
ActualTexts == TextsUpTo(MaxActualLen)

\* what the <stdout> element may hold: nothing, one character, or two
ExpectedTexts ==
  {<<>>} \cup {<<c>> : c \in Alphabet} \cup {<<c, d>> : c \in Alphabet, d \in Alphabet}

MatchAttrs == {NoAttrs} \cup {"match" :> m : m \in {"exact", "contains", "regex"}}

NormalizeAttrs ==
  {NoAttrs} \cup {"normalize" :> n : n \in {<<"ansi">>, <<"Whitespace">>,
                                             <<"ansi", " whitespace">>}}

\* an <expect> block with no <stdout> child, and every <stdout> expectation
ExpectElements ==
  {El("expect", NoAttrs, <<>>, <<El("exit_code", NoAttrs, <<"0">>, <<>>)>>)}
  \cup {El("expect", NoAttrs, <<>>, <<El("stdout", m @@ n, t, <<>>)>>) :
          m \in MatchAttrs, n \in NormalizeAttrs, t \in ExpectedTexts}

InitCompare ==
  /\ cmp \in {[expect |-> e, actual |-> a, outcome |-> "pending"] :
                e \in ExpectElements, a \in ActualTexts}
  /\ args = [list_cases |-> FALSE]
  /\ files = <<>>
  /\ pc = "compare"
  /\ idx = 1
  /\ has_errors = FALSE
  /\ parsed_trees = <<>>
  /\ all_suite_results = <<>>
  /\ exit_code = -1
  /\ suite_env = NoSuiteEnv
  /\ suite_result = NewSuiteResult
  /\ case_idx = 1
  /\ cmd_idx = 1
  /\ current_env = AmbientEnv
  /\ working_dir = <<>>
  /\ timeout_val = <<>>
  /\ process = NoProcess
  /\ spawned = <<>>
  /\ compared = <<>>
  /\ attempted = <<>>

\* lines 386-390 applied to the captured standard output
stdout_outcome(c) ==
  IF ~c.evaluated THEN "not compared"
  ELSE IF c.raised THEN "raised"
  ELSE IF c.failed THEN "stdout mismatch"
  ELSE "passed"

CompareStdout ==
  /\ pc = "compare"
  /\ cmp.outcome = "pending"
  /\ cmp' = [cmp EXCEPT !.outcome = stdout_outcome(check_stream(cmp.expect, "stdout",
                                                                cmp.actual))]
  /\ UNCHANGED <<args, files, pc, idx, has_errors, parsed_trees, all_suite_results,
                 exit_code, runner_vars>>

NextCompare == CompareStdout

SpecCompare == InitCompare /\ [][NextCompare]_vars


(***************************************************************************)
(* Reading a run: the suites main hands to run_suite are the positions of  *)
(* parsed_trees; each has its document, its processes, its attempts and    *)
(* its result.                                                             *)
(***************************************************************************)
\* the file does not reach the runner: it cannot be read, or validation
\* reports an error
Rejected(file) == ~file.exists \/ validate_suite_manually(file).errors # <<>>

Suite(p) == files[parsed_trees[p]].root

InSuite == {"suite_setup", "cases", "case_setup", "case_command", "case_teardown",
            "assert", "suite_teardown", "suite_return", "crashed", "blocked"}

\* run_suite has been called for the suite
Started(p) ==
  /\ pc \notin {"validate", "dispatch"}
  /\ p < idx \/ (p = idx /\ pc \in InSuite)

\* run_suite has returned for the suite
Returned(p) == pc \notin {"validate", "dispatch"} /\ p \in DOMAIN all_suite_results

ResultOf(p) == IF p \in DOMAIN all_suite_results THEN all_suite_results[p] ELSE suite_result

IsOfSuite(e, p) == e.file = parsed_trees[p]

\* the processes of the suite of the given kinds, in the order they were spawned
SpawnsOf(p, kinds) ==
  LET Test(e) == IsOfSuite(e, p) /\ e.kind \in kinds IN SelectSeq(spawned, Test)

AllKinds == {"suite setup", "case setup", "test", "case teardown", "suite teardown"}

\* the cases run_test_case was called for, in the order of the calls
AttemptsOf(p) ==
  LET Test(a) == a[1] = parsed_trees[p]
      calls == SelectSeq(attempted, Test)
  IN [k \in DOMAIN calls |-> calls[k][2]]

SetupFailed(p) ==
  \E k \in DOMAIN spawned :
     /\ IsOfSuite(spawned[k], p)
     /\ spawned[k].kind = "suite setup"
     /\ spawned[k].outcome \in {"exit 1", "not found"}

\* the suite's setup is over and no command of it failed
SetupSucceeded(p) ==
  Started(p) /\ ~SetupFailed(p) /\ ~(p = idx /\ pc = "suite_setup")

\* main has returned, or an exception has ended it
RunOver == pc \in {"done", "crashed"}

(***************************************************************************)
(* Claims                                                                  *)
(***************************************************************************)

\* C1: validation is a gate for the whole run.  When any file given to main
\* is rejected (it cannot be read, is not well-formed, has the wrong root or
\* fails a validation rule), no process of any suite is ever spawned, no
\* case is attempted and no suite is run, the suites that validated
\* included, and main returns the runtime-error status 2.
C1_ValidationGate ==
  (\E i \in DOMAIN files : Rejected(files[i]))
    => /\ spawned = <<>>
       /\ attempted = <<>>
       /\ all_suite_results = <<>>
       /\ pc \in {"validate", "dispatch", "done"}
       /\ (pc = "done" => exit_code = EXIT_CODE_RUNTIME_ERROR)

\* a run of a valid suite with a test case followed by a rejected file has
\* ended with status 2
C1_Witness ==
  /\ pc = "done"
  /\ Len(files) = 2
  /\ ~Rejected(files[1])
  /\ TestCases(files[1].root) # <<>>
  /\ Rejected(files[2])
  /\ exit_code = EXIT_CODE_RUNTIME_ERROR
  /\ spawned = <<>>

\* the schema rules a generated document can break
SchemaFlaws == {"unknown attribute", "unknown child", "too many", "too few", "empty",
                "invalid attribute", "invalid text"}

\* C2: every document that breaks a single schema rule is rejected.  Once
\* validation is over, a run given a document with an unknown attribute, an
\* unknown child, a child count outside its bound or an invalid value has
\* has_errors set, and no case of it executes.
C2_EverySchemaViolationRejected ==
  (pc # "validate" /\ \E i \in DOMAIN files : files[i].flaw.kind \in SchemaFlaws)
    => has_errors /\ spawned = <<>> /\ attempted = <<>>

\* C3: suite setup failure stops the suite.  When a suite setup command
\* fails, it is the last process of the suite: the setup commands before it
\* ran once each in order, no later setup command, no case and no teardown
\* command runs, and run_suite returns at once a result with an error and no
\* case result.  In every state a SuiteResult with an error has no case
\* result.
C3_SetupFailureStopsSuite ==
  /\ \A p \in DOMAIN parsed_trees :
       (Started(p) /\ SetupFailed(p))
         => /\ ResultOf(p).error # ""
            /\ ResultOf(p).test_cases = <<>>
            /\ AttemptsOf(p) = <<>>
            /\ p = idx => pc = "suite_return"
            /\ \A k \in DOMAIN SpawnsOf(p, AllKinds) :
                 /\ SpawnsOf(p, AllKinds)[k].kind = "suite setup"
                 /\ SpawnsOf(p, AllKinds)[k].n = k
                 /\ SpawnsOf(p, AllKinds)[k].outcome # "exit 0"
                      => k = Len(SpawnsOf(p, AllKinds))
  /\ suite_result.error # "" => suite_result.test_cases = <<>>
  /\ \A p \in DOMAIN all_suite_results :
       all_suite_results[p].error # "" => all_suite_results[p].test_cases = <<>>

\* run_suite has returned for a suite with two setup commands, a case and a
\* teardown block whose first setup command failed
C3_Witness ==
  \E p \in DOMAIN parsed_trees :
     /\ Returned(p)
     /\ all_suite_results[p].error # ""
     /\ Len(BlockCommands(Suite(p), "setup")) = 2
     /\ BlockCommands(Suite(p), "teardown") # <<>>
     /\ TestCases(Suite(p)) # <<>>
     /\ Len(SpawnsOf(p, AllKinds)) = 1

\* the case results of a suite carry the descriptions of its cases, in order
ResultsFollowCases(p) ==
  /\ Len(ResultOf(p).test_cases) = Len(TestCases(Suite(p)))
  /\ \A j \in DOMAIN ResultOf(p).test_cases :
       ResultOf(p).test_cases[j].description
         = get(TestCases(Suite(p))[j], "description", "Unnamed Test Case")

\* C4: every case is attempted exactly once, in document order.  The calls
\* of run_test_case for a suite are always for its cases 1, 2, ... in that
\* order; when the run is over, every suite whose setup succeeded has had
\* every one of its cases attempted, whatever the earlier cases did, and
\* run_suite has returned a result with one case result per case, in order.
C4_EveryCaseAttemptedOnceInOrder ==
  \A p \in DOMAIN parsed_trees :
     /\ \A k \in DOMAIN AttemptsOf(p) : AttemptsOf(p)[k] = k
     /\ (RunOver /\ SetupSucceeded(p))
          => /\ Len(AttemptsOf(p)) = Len(TestCases(Suite(p)))
             /\ Returned(p)
             /\ ResultsFollowCases(p)

\* C5: suite teardown runs exactly once, after the cases.  The teardown
\* commands of a suite run in order, at most once each, only when every case
\* has its result, and no other process of the suite follows them; when the
\* run is over, every suite whose setup succeeded has had every one of its
\* teardown commands run.
C5_SuiteTeardownExactlyOnce ==
  \A p \in DOMAIN parsed_trees :
     /\ \A k \in DOMAIN SpawnsOf(p, {"suite teardown"}) :
          /\ SpawnsOf(p, {"suite teardown"})[k].n = k
          /\ k <= Len(BlockCommands(Suite(p), "teardown"))
     /\ SpawnsOf(p, {"suite teardown"}) # <<>>
          => /\ Len(ResultOf(p).test_cases) = Len(TestCases(Suite(p)))
             /\ \A k \in DOMAIN SpawnsOf(p, AllKinds) :
                  k > Len(SpawnsOf(p, AllKinds)) - Len(SpawnsOf(p, {"suite teardown"}))
                    => SpawnsOf(p, AllKinds)[k].kind = "suite teardown"
     /\ (RunOver /\ SetupSucceeded(p))
          => Len(SpawnsOf(p, {"suite teardown"})) = Len(BlockCommands(Suite(p), "teardown"))


\* the mapping a sequence of <variable> elements denotes: each name has the
\* text of the last element of that name
Layer(variable_elements) ==
  [name \in {variable_elements[k].attrib["name"] : k \in DOMAIN variable_elements} |->
     variable_elements[CHOOSE k \in DOMAIN variable_elements :
                          /\ variable_elements[k].attrib["name"] = name
                          /\ \A later \in DOMAIN variable_elements :
                               variable_elements[later].attrib["name"] = name
                                 => later <= k].text]

\* top laid over base: top wins where both have the key
Overlay(top, base) ==
  [key \in DOMAIN top \cup DOMAIN base |-> IF key \in DOMAIN top THEN top[key] ELSE base[key]]

\* the <variable> elements that are children of the <environment> itself
DirectVariables(parent) ==
  IF has(parent, "environment")
  THEN findall(find(parent, "environment"), "variable") ELSE <<>>

\* the <variable> elements inside the <variables> child of the <environment>
WrappedVariables(parent) ==
  IF has(parent, "environment") /\ has(find(parent, "environment"), "variables")
  THEN findall(find(find(parent, "environment"), "variables"), "variable") ELSE <<>>

\* the document of the file has the documented shape: no <variables> element
DocumentedShape(file) ==
  /\ WrappedVariables(files[file].root) = <<>>
  /\ \A j \in DOMAIN TestCases(files[file].root) :
       WrappedVariables(TestCases(files[file].root)[j]) = <<>>

CaseOf(e) == TestCases(files[e.file].root)[e.case]

JustReturned ==
  /\ pc = "cases"
  /\ case_idx > 1
  /\ Len(suite_result.test_cases) = case_idx - 1

LastCase == TestCases(Root)[case_idx - 1]

LastResult == suite_result.test_cases[case_idx - 1]

\* the process of that case, of the given kind, ended in one of the given ways
LastCaseSpawn(kind, outcomes) ==
  \E k \in DOMAIN spawned :
     /\ spawned[k].file = parsed_trees[idx]
     /\ spawned[k].case = case_idx - 1
     /\ spawned[k].kind = kind
     /\ spawned[k].outcome \in outcomes

\* the stream assertions of the case hold of what its command wrote
StreamsHold(case_element, proc) ==
  /\ ~check_stream(find(case_element, "expect"), "stdout", proc.stdout).failed
  /\ ~check_stream(find(case_element, "expect"), "stderr", proc.stderr).failed

\* the command of the last case exited and its <expect> has no <exit_code>
ExitedWithoutExitCodeExpectation ==
  /\ JustReturned
  /\ LastCaseSpawn("test", {"exited"})
  /\ ~has(find(LastCase, "expect"), "exit_code")

\* C7 as stated: when <expect> has no <exit_code> child the expected exit
\* code is 0: a command that returns 1 makes the case fail, and a command
\* that returns 0, the other assertions holding, makes it pass.
C7_ExitCodeDefaultsToZero ==
  ExitedWithoutExitCodeExpectation
    => /\ process.returncode = 1 => ~LastResult.passed
       /\ (/\ process.returncode = 0
           /\ StreamsHold(LastCase, process)
           /\ ~LastCaseSpawn("case teardown", {"exit 1", "not found"}))
            => LastResult.passed

\* C7, amended: when <expect> has no <exit_code> child the exit code is not
\* checked: whatever the command returns, 1 as well as 0, the case passes
\* exactly when the stream assertions hold and the case's teardown did not
\* fail, and no exit-code comparison is made.
C7_ExitCodeUnchecked ==
  ExitedWithoutExitCodeExpectation
    => /\ LastResult.passed
            <=> /\ StreamsHold(LastCase, process)
                /\ ~LastCaseSpawn("case teardown", {"exit 1", "not found"})
       /\ LastResult.message # "Exit code mismatch"
       /\ \A k \in DOMAIN compared :
            (compared[k].file = parsed_trees[idx] /\ compared[k].case = case_idx - 1)
              => compared[k].stream # "exit_code"

\* a case without <exit_code> whose command returned 1 has passed
C7_Witness ==
  /\ ExitedWithoutExitCodeExpectation
  /\ process.returncode = 1
  /\ LastResult.passed

PositionOf(file) == CHOOSE p \in DOMAIN parsed_trees : parsed_trees[p] = file

\* the timeout the command of the process should have been given
ResolvedTimeout(e) ==
  IF "timeout" \in DOMAIN CaseOf(e).attrib
  THEN Strip(CaseOf(e).attrib["timeout"])
  ELSE IF "timeout" \in DOMAIN files[e.file].root.attrib
  THEN Strip(files[e.file].root.attrib["timeout"])
  ELSE <<>>

\* C8: a command under test is given the case's timeout when the case has
\* one, else the suite's; a command that exceeds it has a timeout, and its
\* case at once has a failed result with error_type TimeoutExpired, and no
\* stdout, stderr or exit-code comparison is ever made for that case.
C8_TimeoutOutcome ==
  \A k \in DOMAIN spawned :
     spawned[k].kind = "test"
       => /\ spawned[k].timeout = ResolvedTimeout(spawned[k])
          /\ spawned[k].outcome = "timeout"
               => /\ spawned[k].timeout # <<>>
                  /\ spawned[k].case
                       \in DOMAIN ResultOf(PositionOf(spawned[k].file)).test_cases
                  /\ ~ResultOf(PositionOf(spawned[k].file)).test_cases[spawned[k].case].passed
                  /\ ResultOf(PositionOf(spawned[k].file)).test_cases[spawned[k].case].error_type
                       = "TimeoutExpired"
                  /\ \A c \in DOMAIN compared :
                       ~(/\ compared[c].file = spawned[k].file
                         /\ compared[c].case = spawned[k].case)

\* a command timed out under its case's timeout, which replaces the suite's,
\* and the next case has been attempted
C8_Witness ==
  \E k \in DOMAIN spawned :
     /\ spawned[k].kind = "test"
     /\ spawned[k].outcome = "timeout"
     /\ spawned[k].timeout = <<"1">>
     /\ "timeout" \in DOMAIN files[spawned[k].file].root.attrib
     /\ files[spawned[k].file].root.attrib["timeout"] = <<"5">>
     /\ \E a \in DOMAIN attempted :
          attempted[a] = <<spawned[k].file, spawned[k].case + 1>>

\* some file given to main was rejected, or some suite setup command failed
StructuralOrSetupError ==
  \/ \E i \in DOMAIN files : Rejected(files[i])
  \/ \E p \in DOMAIN parsed_trees : SetupFailed(p)

\* some case that was attempted has a result that is not a pass
SomeCaseFailed ==
  \E p \in DOMAIN all_suite_results :
     \E j \in DOMAIN all_suite_results[p].test_cases :
        ~all_suite_results[p].test_cases[j].passed

\* every case that was attempted has a result that is a pass
EveryCasePassed ==
  \A a \in DOMAIN attempted :
     /\ PositionOf(attempted[a][1]) \in DOMAIN all_suite_results
     /\ attempted[a][2]
          \in DOMAIN all_suite_results[PositionOf(attempted[a][1])].test_cases
     /\ all_suite_results[PositionOf(attempted[a][1])].test_cases[attempted[a][2]].passed

\* C9: the exit status follows the results of all suites.  When the run is
\* over the status is 0, 1 or 2; it is 2 exactly when a file was rejected or
\* a suite's setup failed; it is 1 when there was no such error and some
\* case failed (a mismatch, a timeout, a command not found, a case setup or
\* teardown failure); it is 0 exactly when there was no such error and every
\* case passed.
C9_ExitStatus ==
  RunOver
    => /\ exit_code \in {EXIT_CODE_SUCCESS, EXIT_CODE_TESTS_FAILED, EXIT_CODE_RUNTIME_ERROR}
       /\ exit_code = EXIT_CODE_RUNTIME_ERROR <=> StructuralOrSetupError
       /\ (~StructuralOrSetupError /\ SomeCaseFailed) => exit_code = EXIT_CODE_TESTS_FAILED
       /\ exit_code = EXIT_CODE_SUCCESS <=> (~StructuralOrSetupError /\ EveryCasePassed)

\* a run of two suites is over with status 2: the setup of one failed and a
\* case of the other did
C9_Witness ==
  /\ pc = "done"
  /\ Len(all_suite_results) = 2
  /\ \E p \in DOMAIN all_suite_results : all_suite_results[p].error # ""
  /\ SomeCaseFailed
  /\ exit_code = EXIT_CODE_RUNTIME_ERROR


\* needle occurs in hay
IsSubstring(needle, hay) ==
  \E i \in 1..(Len(hay) + 1) : \E j \in (i - 1)..Len(hay) : SubSeq(hay, i, j) = needle

\* the whole of text is matched by the pattern, a "." standing for any one
\* character and every other character for itself
MatchesWhole(pattern, text) ==
  /\ Len(pattern) = Len(text)
  /\ \A k \in DOMAIN pattern : pattern[k] = "." \/ pattern[k] = text[k]

\* the pattern is one: "[" opens a set that nothing closes
IsPattern(pattern) == \A k \in DOMAIN pattern : pattern[k] # "["

MatchesSomewhere(pattern, text) ==
  /\ IsPattern(pattern)
  /\ \E i \in 1..(Len(text) + 1) : \E j \in (i - 1)..Len(text) :
       MatchesWhole(pattern, SubSeq(text, i, j))

\* the rule set of an expectation element
RulesOf(e) ==
  IF "normalize" \in DOMAIN e.attrib THEN NormalizeRules(e.attrib["normalize"]) ELSE {}

\* the expected text as it is compared: normalized only under the whitespace rule
ExpectedSide(e) ==
  IF "whitespace" \in RulesOf(e) THEN normalize_output(e.text, RulesOf(e)) ELSE e.text

MatchOf(e) == IF "match" \in DOMAIN e.attrib THEN e.attrib["match"] ELSE "exact"

ShouldPass(match, actual_side, expected_side) ==
  \/ match = "exact" /\ actual_side = expected_side
  \/ match = "contains" /\ IsSubstring(expected_side, actual_side)
  \/ match = "regex" /\ MatchesSomewhere(expected_side, actual_side)

\* C10: compare_streams normalizes the actual text by the expectation's
\* rules, the expected text only when whitespace is among them, and then
\* passes exactly when: the match is exact (the default) and the two texts
\* are equal; it is contains and the expected text occurs in the actual
\* one; it is regex and the expected pattern matches somewhere in the
\* actual text.  A stream whose expectation element is absent is not
\* compared, and does not fail.
C10_CompareStreams ==
  cmp.outcome \notin {"pending", "idle"}
    => IF ~has(cmp.expect, "stdout")
       THEN cmp.outcome = "not compared"
       ELSE /\ cmp.outcome \in {"passed", "stdout mismatch", "raised"}
            /\ cmp.outcome = "passed"
                 <=> ShouldPass(MatchOf(find(cmp.expect, "stdout")),
                                normalize_output(cmp.actual, RulesOf(find(cmp.expect, "stdout"))),
                                ExpectedSide(find(cmp.expect, "stdout")))

\* an exact comparison under the whitespace rule passed although the actual
\* and the expected text differ: both were folded
C10_Witness ==
  /\ cmp.outcome = "passed"
  /\ has(cmp.expect, "stdout")
  /\ MatchOf(find(cmp.expect, "stdout")) = "exact"
  /\ "whitespace" \in RulesOf(find(cmp.expect, "stdout"))
  /\ cmp.actual # find(cmp.expect, "stdout").text
  /\ Len(find(cmp.expect, "stdout").text) = 2
  /\ ExpectedSide(find(cmp.expect, "stdout")) # find(cmp.expect, "stdout").text


\* the processes of one case, in the order they were spawned
CaseSpawns(file, case) ==
  LET Test(e) == e.file = file /\ e.case = case IN SelectSeq(spawned, Test)

\* the streams compared for one case, in the order of the comparisons
ComparedOf(file, case) ==
  LET Test(c) == c.file = file /\ c.case = case
      mine == SelectSeq(compared, Test)
  IN [k \in DOMAIN mine |-> mine[k].stream]

CaseAt(file, case) == TestCases(files[file].root)[case]

\* the process ended, and not the way the step needs
ProcessFailed(e) == e.outcome \in {"exit 1", "not found", "timeout", "error"}

\* the process ended the way the step needs
ProcessSucceeded(e) == e.outcome \in {"exit 0", "exited"}

\* the message of the result of a case whose process e failed
FailureMessage(e) ==
  CASE e.kind = "case setup" -> "Test case setup command failed"
    [] e.kind = "case teardown" -> "Test case teardown command failed"
    [] e.kind = "test" /\ e.outcome = "timeout" -> "Test command timed out"
    [] e.kind = "test" /\ e.outcome = "not found" -> "Command execution failed"
    [] e.kind = "test" /\ e.outcome = "error" -> "Unexpected error during execution"

StreamRank(stream) ==
  CASE stream = "stdout" -> 1 [] stream = "stderr" -> 2 [] stream = "exit_code" -> 3

\* the processes s of a case come in the order setup 1, 2, ..., the command
\* under test, teardown 1, 2, ...; each runs the command of the document at
\* its place, and one that does not succeed is the last
StepsInOrder(s, case_element) ==
  \A k \in DOMAIN s :
     /\ s[k].kind \in {"case setup", "test", "case teardown"}
     /\ s[k].kind = "case setup"
          => /\ s[k].n = k
             /\ k <= Len(BlockCommands(case_element, "setup"))
             /\ s[k].command = BlockCommands(case_element, "setup")[k].text
     /\ s[k].kind = "test"
          => k = Len(BlockCommands(case_element, "setup")) + 1
     /\ s[k].kind = "case teardown"
          => /\ k = Len(BlockCommands(case_element, "setup")) + 1 + s[k].n
             /\ s[k].n <= Len(BlockCommands(case_element, "teardown"))
             /\ s[k].command = BlockCommands(case_element, "teardown")[s[k].n].text
     /\ ~ProcessSucceeded(s[k]) => k = Len(s)

\* every process of the case has run and succeeded
AllStepsRan(s, case_element) ==
  /\ Len(s) = Len(BlockCommands(case_element, "setup")) + 1
                + Len(BlockCommands(case_element, "teardown"))
  /\ \A k \in DOMAIN s : ProcessSucceeded(s[k])

\* the comparisons c of a case are made after its processes, each for an
\* element of <expect>, in the order stdout, stderr, exit_code
AssertionsInOrder(c, s, case_element) ==
  /\ c # <<>> => AllStepsRan(s, case_element)
  /\ \A k \in DOMAIN c : has(find(case_element, "expect"), c[k])
  /\ \A k, l \in DOMAIN c : k < l => StreamRank(c[k]) < StreamRank(c[l])

\* the result of a case tells its first failing step: the process that
\* failed, else the last comparison made; it is a pass only when every
\* process succeeded and every expectation of <expect> was compared
ResultTellsFirstFailure(result, c, s, case_element) ==
  IF s # <<>> /\ ProcessFailed(s[Len(s)])
  THEN ~result.passed /\ result.message = FailureMessage(s[Len(s)]) /\ c = <<>>
  ELSE /\ AllStepsRan(s, case_element)
       /\ result.passed <=> result.message = ""
       /\ result.message \in {"", "stdout mismatch", "stderr mismatch", "Exit code mismatch"}
       /\ result.message = "stdout mismatch" => c # <<>> /\ c[Len(c)] = "stdout"
       /\ result.message = "stderr mismatch" => c # <<>> /\ c[Len(c)] = "stderr"
       /\ result.message = "Exit code mismatch" => c # <<>> /\ c[Len(c)] = "exit_code"
       /\ result.passed
            => \A stream \in {"stdout", "stderr", "exit_code"} :
                  has(find(case_element, "expect"), stream)
                    => \E k \in DOMAIN c : c[k] = stream

\* the expectation of the stream is there and the text does not meet it
StreamFails(expect_el, stream, text) ==
  /\ has(expect_el, stream)
  /\ ~ShouldPass(MatchOf(find(expect_el, stream)),
                 normalize_output(text, RulesOf(find(expect_el, stream))),
                 ExpectedSide(find(expect_el, stream)))

ExitCodeFails(expect_el, returncode) ==
  /\ has(expect_el, "exit_code")
  /\ returncode # IntValue(find(expect_el, "exit_code").text)

\* the comparisons to make on what the command left: up to the first that fails
ComparisonsDue(expect_el, proc) ==
  (IF has(expect_el, "stdout") THEN <<"stdout">> ELSE <<>>)
  \o (IF ~StreamFails(expect_el, "stdout", proc.stdout) /\ has(expect_el, "stderr")
      THEN <<"stderr">> ELSE <<>>)
  \o (IF /\ ~StreamFails(expect_el, "stdout", proc.stdout)
         /\ ~StreamFails(expect_el, "stderr", proc.stderr)
         /\ has(expect_el, "exit_code")
      THEN <<"exit_code">> ELSE <<>>)

\* the message of the first assertion that fails, "" when none does
VerdictDue(expect_el, proc) ==
  IF StreamFails(expect_el, "stdout", proc.stdout) THEN "stdout mismatch"
  ELSE IF StreamFails(expect_el, "stderr", proc.stderr) THEN "stderr mismatch"
  ELSE IF ExitCodeFails(expect_el, proc.returncode) THEN "Exit code mismatch"
  ELSE ""

\* C11: the steps of a case happen in a fixed order.  The processes of
\* every attempted case are its setup commands in document order, then the
\* command under test, then its teardown commands in document order, and a
\* process that fails is the last of the case (a failing setup command
\* leaves the command under test unspawned); comparisons are made only
\* after all of them succeeded, in the order stdout, stderr, exit code; the
\* result of the case names the first step that failed and is a pass only
\* when none did.  For the case that has just ended, the comparisons made
\* are exactly those up to the first failing one, and the result names it.
C11_StepOrder ==
  /\ \A a \in DOMAIN attempted :
       /\ StepsInOrder(CaseSpawns(attempted[a][1], attempted[a][2]),
                       CaseAt(attempted[a][1], attempted[a][2]))
       /\ AssertionsInOrder(ComparedOf(attempted[a][1], attempted[a][2]),
                            CaseSpawns(attempted[a][1], attempted[a][2]),
                            CaseAt(attempted[a][1], attempted[a][2]))
       /\ attempted[a][2] \in DOMAIN ResultOf(PositionOf(attempted[a][1])).test_cases
            => ResultTellsFirstFailure(
                 ResultOf(PositionOf(attempted[a][1])).test_cases[attempted[a][2]],
                 ComparedOf(attempted[a][1], attempted[a][2]),
                 CaseSpawns(attempted[a][1], attempted[a][2]),
                 CaseAt(attempted[a][1], attempted[a][2]))
  /\ (JustReturned /\ AllStepsRan(CaseSpawns(parsed_trees[idx], case_idx - 1), LastCase))
       => /\ ComparedOf(parsed_trees[idx], case_idx - 1)
               = ComparisonsDue(find(LastCase, "expect"), process)
          /\ LastResult.message = VerdictDue(find(LastCase, "expect"), process)
  /\ pc = "crashed"
       => ComparedOf(parsed_trees[idx], case_idx)
            = ComparisonsDue(find(CaseEl, "expect"), process)

\* a case with a setup command, a teardown command and the three
\* expectations has just ended: its three processes ran, stdout was compared
\* and met, stderr was compared and not met, the exit code was not compared
C11_Witness ==
  /\ JustReturned
  /\ Len(CaseSpawns(parsed_trees[idx], case_idx - 1)) = 3
  /\ BlockCommands(LastCase, "setup") # <<>>
  /\ BlockCommands(LastCase, "teardown") # <<>>
  /\ has(find(LastCase, "expect"), "exit_code")
  /\ ComparedOf(parsed_trees[idx], case_idx - 1) = <<"stdout", "stderr">>
  /\ LastResult.message = "stderr mismatch"


\* run_test_case is over for the case: it has returned a result, or an
\* exception has left it
CaseOver(file, case) ==
  \/ case \in DOMAIN ResultOf(PositionOf(file)).test_cases
  \/ pc = "crashed" /\ file = parsed_trees[idx] /\ case = case_idx

\* the command under test of the case has been invoked
CommandInvoked(s) == \E k \in DOMAIN s : s[k].kind = "test"

\* every teardown command of the case has been run, in document order
TeardownRan(s, case_element) ==
  /\ \A n \in DOMAIN BlockCommands(case_element, "teardown") :
        \E k \in DOMAIN s : s[k].kind = "case teardown" /\ s[k].n = n
  /\ \A k, l \in DOMAIN s :
        (k < l /\ s[k].kind = "case teardown" /\ s[l].kind = "case teardown")
          => s[k].n < s[l].n

\* C12: case teardown runs whatever the command did.  When a case is over
\* and its command under test was invoked, every teardown command of the
\* case has been run, in document order: after a match and after a
\* mismatch, and also when the command timed out or was not found.
C12_CaseTeardownAlwaysRuns ==
  \A a \in DOMAIN attempted :
     (/\ CaseOver(attempted[a][1], attempted[a][2])
      /\ CommandInvoked(CaseSpawns(attempted[a][1], attempted[a][2])))
       => TeardownRan(CaseSpawns(attempted[a][1], attempted[a][2]),
                      CaseAt(attempted[a][1], attempted[a][2]))

\* the suite has a case, and every case has a timeout: its own or the suite's
TimeoutResolvedForEveryCase(root) ==
  /\ TestCases(root) # <<>>
  /\ \A j \in DOMAIN TestCases(root) :
        \/ "timeout" \in DOMAIN TestCases(root)[j].attrib
        \/ "timeout" \in DOMAIN root.attrib

\* C13: the timeout bounds every process.  In the run of a suite whose
\* cases all have a timeout, no process is waited for without end: a setup
\* command, a command under test or a teardown command that does not exit
\* by itself is stopped, so the run is never left blocked on it and goes on
\* to its end.
C13_TimeoutBoundsEveryProcess ==
  \A k \in DOMAIN spawned :
     TimeoutResolvedForEveryCase(files[spawned[k].file].root)
       => spawned[k].outcome # "hang"
====
